---- MODULE Spec2Model ----
(***************************************************************************)
(* Digest authentication engine of auth-digest-axios.                      *)
(*                                                                         *)
(* The source file holds two near-duplicate implementations of            *)
(* createDigestAuth: the fixed-MD5 variant (lines 1-229, rollover at       *)
(* nc > 99) and the challenge-algorithm variant (lines 230-448, rollover   *)
(* at nc > 9999).  The variable `variant` selects which one a behaviour    *)
(* runs (1 or 2).                                                          *)
(*                                                                         *)
(* Text is modelled as a sequence of atoms.  An atom is either one of the  *)
(* punctuation characters of Punct or a maximal run of word characters     *)
(* (\w+), so that the regular expression of parseDigestChallenge and the   *)
(* substring tests of the interceptor can be evaluated as the code does.   *)
(*                                                                         *)
(* Spec is one client shared by concurrent callers, LiveSpec the same with *)
(* the timeout of the probe as fairness, PureSpec the functions of the     *)
(* module applied on their own, InstanceSpec separate instances and        *)
(* controlDoor.                                                            *)
(***************************************************************************)
EXTENDS Integers, Sequences, FiniteSets, TLC

VARIABLES
    variant,          \* 1: fixed-MD5 implementation, 2: challenge-algorithm one
    cachedChallenge,  \* closure variable cachedChallenge (Null or a challenge)
    nc,               \* closure variable nc
    pc,               \* per caller: "idle", "probing" (awaiting axios.request), "sent"
    req,              \* per caller: the request config of the call in progress
    hdr,              \* per caller: Authorization header of the request on the wire
    outcome,          \* per caller: how the last call ended ("none": not yet)
    probes,           \* per caller: probes sent by the current (if idle: last) call
    sends,            \* per caller: authenticated requests sent by that call
    stale,            \* per caller: the call started with nc over the ceiling
    startTag,         \* per caller: value of since401 when the call started
    since401,         \* "none"; after a 401: "fresh", then "stale" once a probe has
                      \* installed a challenge ("tainted": one it rejected)
    epochLast,        \* nc of the last header built from the cached challenge
    overlapped,       \* two perform calls have been in flight at the same time
    applied,          \* a function of the module applied on its own: its arguments
    returned,         \* what that application returned (or threw)
    inst              \* per instance returned by createDigestAuth: its closure
                      \* state and the call in progress on it

\* one client shared by concurrent callers
client == <<variant, cachedChallenge, nc, pc, req, hdr, outcome, probes, sends,
            stale, startTag, since401, epochLast, overlapped>>

vars == <<variant, cachedChallenge, nc, pc, req, hdr, outcome, probes, sends,
          stale, startTag, since401, epochLast, overlapped, applied, returned, inst>>

(***************************************************************************)
(* Bounds.  The rollover ceilings of the source (99 and 9999) are scaled   *)
(* down, keeping their order, so that a rollover is reached.               *)
(***************************************************************************)
CeilingFixedMD5 == 2
CeilingChallengeAlg == 3

Callers == {"a", "b"}

(***************************************************************************)
(* Text                                                                    *)
(***************************************************************************)
SP == " "
Q == "\""
Punct == {SP, Q, ",", "=", "-", ":", "/", "?", "(", ")"}

IsWord(a) == a \notin Punct

\* String.prototype.toLowerCase on one atom of the alphabet in use
ToLowerAtom(a) ==
    CASE a = "Digest" -> "digest"
      [] a = "DIGEST" -> "digest"
      [] a = "Basic" -> "basic"
      [] a = "X" -> "x"
      [] a = "Realm" -> "realm"
      [] a = "NONCE" -> "nonce"
      [] a = "MD5" -> "md5"
      [] a = "SHA" -> "sha"
      [] a = "PUT" -> "put"
      [] a = "GET" -> "get"
      [] OTHER -> a

ToUpperAtom(a) ==
    CASE a = "put" -> "PUT"
      [] a = "get" -> "GET"
      [] OTHER -> a

toLowerCase(t) == [i \in 1..Len(t) |-> ToLowerAtom(t[i])]
toUpperCase(t) == [i \in 1..Len(t) |-> ToUpperAtom(t[i])]

Drop(t, n) == SubSeq(t, n + 1, Len(t))

\* positions at which the text "digest " occurs in lower-cased text t: the
\* word "digest" is a run of word characters, so it is the tail of one word
\* atom, followed by a space (the alphabet has no longer word ending in it)
DigestSpaceAt(t) ==
    {i \in 1..(Len(t) - 1) : t[i] = "digest" /\ t[i + 1] = SP}

\* authHeader.toLowerCase().includes("digest ")
IncludesDigest(authHeader) == DigestSpaceAt(toLowerCase(authHeader)) # {}

Min(S) == CHOOSE x \in S : \A y \in S : x <= y

\* authHeader.substring(authHeader.toLowerCase().indexOf("digest ") + 7)
AfterDigest(authHeader) ==
    Drop(authHeader, Min(DigestSpaceAt(toLowerCase(authHeader))) + 1)

(***************************************************************************)
(* parseDigestChallenge                                                    *)
(***************************************************************************)
OptionalKeys == {"qop", "opaque", "algorithm"}

EmptyChallenge ==
    [realm |-> << >>, nonce |-> << >>, qop |-> << >>, opaque |-> << >>,
     algorithm |-> << >>, set |-> {}]

\* first position >= from where /(\w+)=/ matches, 0 if none
NextKey(t, from) ==
    LET S == {i \in from..(Len(t) - 1) : IsWord(t[i]) /\ t[i + 1] = "="}
    IN IF S = {} THEN 0 ELSE Min(S)

\* first position >= from holding atom a, 0 if none
IndexFrom(t, a, from) ==
    LET S == {i \in from..Len(t) : t[i] = a}
    IN IF S = {} THEN 0 ELSE Min(S)

\* one match of (\w+)=(?:"([^"]*)"|([^,]*)) with the key at position k:
\* the value and the position after the match (regex.lastIndex)
MatchValue(t, k) ==
    LET v == k + 2
        closing == IF v <= Len(t) /\ t[v] = Q THEN IndexFrom(t, Q, v + 1) ELSE 0
        comma == IndexFrom(t, ",", v)
        stop == IF comma = 0 THEN Len(t) + 1 ELSE comma
    IN IF closing # 0
       THEN [value |-> SubSeq(t, v + 1, closing - 1), next |-> closing + 1]
       ELSE [value |-> SubSeq(t, v, stop - 1), next |-> stop]

\* the switch of the parser loop
Assign(challenge, key, value) ==
    IF key \in {"realm", "nonce"}
    THEN [challenge EXCEPT ![key] = value]
    ELSE IF key \in OptionalKeys
         THEN [challenge EXCEPT ![key] = value, !.set = @ \cup {key}]
         ELSE challenge

parseDigestChallenge(authHeader) ==
    LET RECURSIVE Loop(_, _)
        Loop(from, challenge) ==
            LET k == NextKey(authHeader, from)
            IN IF k = 0
               THEN challenge
               ELSE LET m == MatchValue(authHeader, k)
                    IN Loop(m.next,
                            Assign(challenge, ToLowerAtom(authHeader[k]), m.value))
    IN Loop(1, EmptyChallenge)

\* JavaScript truthiness of an optional string field
Truthy(challenge, key) == key \in challenge.set /\ challenge[key] # << >>

(***************************************************************************)
(* formatNonceCount                                                        *)
(***************************************************************************)
HexDigits == <<"0", "1", "2", "3", "4", "5", "6", "7", "8", "9",
               "a", "b", "c", "d", "e", "f">>

\* Number.prototype.toString(16) of a non-negative integer
RECURSIVE toString16(_)
toString16(n) ==
    IF n < 16 THEN <<HexDigits[n + 1]>>
    ELSE toString16(n \div 16) \o <<HexDigits[(n % 16) + 1]>>

\* String.prototype.padStart with a one-character filler
RECURSIVE padStart(_, _, _)
padStart(t, len, fill) ==
    IF Len(t) >= len THEN t ELSE padStart(<<fill>> \o t, len, fill)

\* the hexadecimal digits without the padding
formatNonceCountUnpadded(n) == toString16(n)

formatNonceCount(n) == padStart(toString16(n), 8, "0")

(***************************************************************************)
(* calculateDigestResponse                                                 *)
(***************************************************************************)
\* digests crypto.createHash accepts, among the names used here
SupportedHashes == {<<"md5">>, <<"sha256">>}

\* the hex digest, kept symbolic: the algorithm applied to the data
hashFunction(algorithm, data) == toLowerCase(algorithm) \o <<"(">> \o data \o <<")">>

\* the algorithm the hash function is created with
SelectAlgorithm(v, challenge) ==
    IF v = 1 THEN <<"MD5">>
    ELSE IF Truthy(challenge, "algorithm") THEN challenge.algorithm ELSE <<"MD5">>

Join(parts) ==
    LET RECURSIVE Go(_)
        Go(i) == IF i > Len(parts) THEN << >>
                 ELSE IF i = Len(parts) THEN parts[i]
                 ELSE parts[i] \o <<":">> \o Go(i + 1)
    IN Go(1)

\* a response that takes the form with qop whatever the challenge holds
calculateDigestResponseSixTerms(v, username, password, challenge, n, cnonce, method, uri) ==
    LET algorithm == SelectAlgorithm(v, challenge)
        ha1 == hashFunction(algorithm, Join(<<username, challenge.realm, password>>))
        ha2 == hashFunction(algorithm, Join(<<method, uri>>))
    IN [threw |-> toLowerCase(algorithm) \notin SupportedHashes,
        value |-> hashFunction(algorithm,
                               Join(<<ha1, challenge.nonce, formatNonceCount(n), cnonce,
                                      challenge.qop, ha2>>))]

\* threw: crypto.createHash rejected the algorithm; value: the response
calculateDigestResponse(v, username, password, challenge, n, cnonce, method, uri) ==
    LET algorithm == SelectAlgorithm(v, challenge)
        ha1 == hashFunction(algorithm, Join(<<username, challenge.realm, password>>))
        ha2 == hashFunction(algorithm, Join(<<method, uri>>))
        ncFormatted == formatNonceCount(n)
        responseBase ==
            IF Truthy(challenge, "qop")
            THEN Join(<<ha1, challenge.nonce, ncFormatted, cnonce, challenge.qop, ha2>>)
            ELSE Join(<<ha1, challenge.nonce, ha2>>)
    IN [threw |-> toLowerCase(algorithm) \notin SupportedHashes,
        value |-> hashFunction(algorithm, responseBase)]

(***************************************************************************)
(* Request URI                                                             *)
(***************************************************************************)
\* a URL with a scheme: "http" ":" "/" "/" host ...
IsAbsoluteURL(t) ==
    Len(t) >= 5 /\ t[1] \in {"http", "https"} /\ t[2] = ":" /\ t[3] = "/"
    /\ t[4] = "/" /\ IsWord(t[5])

\* position of the first atom of path or query after the authority
AfterAuthority(t) ==
    LET S == {i \in 5..Len(t) : t[i] \in {"/", "?"}}
    IN IF S = {} THEN Len(t) + 1 ELSE Min(S)

PathOf(t) ==
    LET q == IndexFrom(t, "?", 1)
    IN IF q = 0 THEN t ELSE SubSeq(t, 1, q - 1)

\* URL.search: empty when there is no query or the query is empty
SearchOf(t) ==
    LET q == IndexFrom(t, "?", 1)
    IN IF q = 0 \/ q = Len(t) THEN << >> ELSE SubSeq(t, q, Len(t))

\* base path without its last segment
DirOf(path) ==
    LET S == {i \in 1..Len(path) : path[i] = "/"}
    IN IF S = {} THEN <<"/">> ELSE SubSeq(path, 1, CHOOSE i \in S : \A j \in S : j <= i)

\* pathname + search of new URL(url), url absolute
AbsolutePathAndSearch(url) ==
    LET rest == Drop(url, AfterAuthority(url) - 1)
        path == PathOf(rest)
    IN (IF path = << >> THEN <<"/">> ELSE path) \o SearchOf(rest)

\* new URL(url, base): threw, or pathname + search of the resolved URL
NewURL(url, hasBase, base) ==
    IF IsAbsoluteURL(url)
    THEN [threw |-> FALSE, value |-> AbsolutePathAndSearch(url)]
    ELSE IF ~hasBase \/ ~IsAbsoluteURL(base)
    THEN [threw |-> TRUE, value |-> << >>]
    ELSE LET brest == Drop(base, AfterAuthority(base) - 1)
             bpath == IF PathOf(brest) = << >> THEN <<"/">> ELSE PathOf(brest)
         IN [threw |-> FALSE,
             value |->
               IF url = << >> THEN bpath \o SearchOf(brest)
               ELSE IF url[1] = "/" THEN PathOf(url) \o SearchOf(url)
               ELSE IF url[1] = "?" THEN bpath \o SearchOf(url)
               ELSE DirOf(bpath) \o PathOf(url) \o SearchOf(url)]

\* url.replace(/^https?:\/\/[^\/]+/i, '')
StripOrigin(url) ==
    IF Len(url) >= 5 /\ ToLowerAtom(url[1]) \in {"http", "https"} /\ url[2] = ":"
       /\ url[3] = "/" /\ url[4] = "/" /\ url[5] # "/"
    THEN LET s == IndexFrom(url, "/", 5)
         IN IF s = 0 THEN << >> ELSE Drop(url, s - 1)
    ELSE url

\* requestConfig.url || ""
UrlOrEmpty(r) == IF "url" \in r.set THEN r.url ELSE << >>

\* requestConfig.url?.startsWith("http")
StartsWithHttp(r) ==
    "url" \in r.set /\ r.url # << >> /\ r.url[1] \in {"http", "https"}

\* the uri of the request as the interceptor derives it
DeriveUri(v, r) ==
    IF v = 1
    THEN IF StartsWithHttp(r)
         THEN LET u == NewURL(r.url, FALSE, << >>)
              IN IF u.threw THEN StripOrigin(r.url) ELSE u.value
         ELSE IF "baseURL" \in r.set /\ r.baseURL # << >>
                 /\ "url" \in r.set /\ r.url # << >>
         THEN LET u == NewURL(r.url, TRUE, r.baseURL)
              IN IF u.threw THEN r.url ELSE u.value
         ELSE UrlOrEmpty(r)
    ELSE LET urlString == UrlOrEmpty(r)
             u == NewURL(urlString, "baseURL" \in r.set, r.baseURL)
         IN IF u.threw THEN urlString ELSE u.value

\* requestConfig.method?.toUpperCase() || "GET"
MethodOf(r) ==
    IF "method" \in r.set /\ r.method # << >> THEN toUpperCase(r.method) ELSE <<"GET">>

(***************************************************************************)
(* Authorization header                                                    *)
(***************************************************************************)
Directive(name, value, quoted) == [name |-> name, value |-> value, quoted |-> quoted]

\* the directives of authValue, in the order the template strings add them
AuthValue(v, username, challenge, uri, digestResponse, ncValue, cnonce) ==
    <<Directive("username", username, TRUE),
      Directive("realm", challenge.realm, TRUE),
      Directive("nonce", challenge.nonce, TRUE),
      Directive("uri", uri, TRUE),
      Directive("response", digestResponse, TRUE)>>
    \o (IF Truthy(challenge, "qop")
        THEN <<Directive("qop", challenge.qop, FALSE),
               Directive("nc", ncValue, FALSE),
               Directive("cnonce", cnonce, TRUE)>>
        ELSE << >>)
    \o (IF Truthy(challenge, "opaque")
        THEN <<Directive("opaque", challenge.opaque, TRUE)>>
        ELSE << >>)
    \o (IF v = 2 /\ Truthy(challenge, "algorithm")
        THEN <<Directive("algorithm", challenge.algorithm, FALSE)>>
        ELSE << >>)

(***************************************************************************)
(* Inputs                                                                  *)
(***************************************************************************)
\* DigestAuthConfig of the client
username == <<"admin">>
password == <<"secret">>

\* crypto.randomBytes(8).toString("hex"), kept symbolic
CNonces == {<<"c1">>, <<"c2">>}

\* request configs as the request interceptor sees them
RequestAbsolute ==
    [method |-> <<"put">>,
     url |-> <<"http", ":", "/", "/", "dev", "/", "door", "/", "1">>,
     baseURL |-> << >>, set |-> {"method", "url"}]

RequestRelative ==
    [method |-> <<"get">>,
     url |-> <<"/", "door", "?", "x">>,
     baseURL |-> <<"http", ":", "/", "/", "dev", "/", "api">>,
     set |-> {"method", "url", "baseURL"}]

Requests == {RequestAbsolute, RequestRelative}

NoRequest == [method |-> << >>, url |-> << >>, baseURL |-> << >>, set |-> {}]

\* WWW-Authenticate values the device may answer a probe with
HeaderFull ==
    <<"Digest", SP, "realm", "=", Q, "r", Q, ",", SP, "nonce", "=", Q, "n1", Q, ",",
      SP, "qop", "=", Q, "auth", Q, ",", SP, "opaque", "=", Q, "o", Q, ",",
      SP, "algorithm", "=", "MD5">>

HeaderPlain ==
    <<"DIGEST", SP, "Realm", "=", Q, "r", Q, ",", SP, "NONCE", "=", Q, "n2", Q>>

HeaderNoRealm ==
    <<"Digest", SP, "nonce", "=", Q, "n1", Q, ",", SP, "qop", "=", Q, "auth", Q>>

HeaderBasic == <<"Basic", SP, "realm", "=", Q, "r", Q>>

HeaderSess ==
    <<"Digest", SP, "realm", "=", Q, "r", Q, ",", SP, "nonce", "=", Q, "n1", Q, ",",
      SP, "qop", "=", "auth", ",", SP, "algorithm", "=", "MD5", "-", "sess">>

Answer(kind, status, hasHeader, header) ==
    [kind |-> kind, status |-> status, hasHeader |-> hasHeader, header |-> header]

\* how a probe can settle: a response, or no response within the timeout
ProbeAnswers ==
    {Answer("response", 401, TRUE, h) :
        h \in {HeaderFull, HeaderPlain, HeaderNoRealm, HeaderBasic, HeaderSess}}
    \cup {Answer("response", 401, FALSE, << >>),
          Answer("response", 200, FALSE, << >>),
          Answer("timeout", 0, FALSE, << >>)}

\* how the authenticated request can fail: a response outside 2xx, or none
Rejections ==
    {[hasResponse |-> TRUE, status |-> 401],
     [hasResponse |-> TRUE, status |-> 500],
     [hasResponse |-> FALSE, status |-> 0]}

(***************************************************************************)
(* Request interceptor                                                     *)
(***************************************************************************)
Null == [null |-> TRUE]

NoHeader == << >>

\* the rollover ceiling of the implementation (99 and 9999 in the source)
Ceiling(v) == IF v = 1 THEN CeilingFixedMD5 ELSE CeilingChallengeAlg

\* a test without the rollover
NeedsChallengeNoRollover(v, challenge, n) == challenge = Null

\* if (!cachedChallenge || nc > 99)
NeedsChallenge(v, challenge, n) == challenge = Null \/ n > Ceiling(v)

\* validateStatus of the probe: axios.request resolves only with a 401
ProbeResolves(answer) == answer.kind = "response" /\ answer.status = 401

\* !cachedChallenge.realm || !cachedChallenge.nonce
LacksRealmOrNonce(challenge) == challenge.realm = << >> \/ challenge.nonce = << >>

\* the text handed to parseDigestChallenge
DigestPart(v, authHeader) == IF v = 1 THEN AfterDigest(authHeader) ELSE authHeader

\* a reuse branch that leaves nc as it is
ReuseSameCount(n) == n

\* nc after the reuse branch
Reuse(n) == n + 1

Thrown(error, challenge, n) ==
    [threw |-> TRUE, error |-> error, challenge |-> challenge, nc |-> n]

\* an acquisition branch that validates the parsed challenge without
\* assigning it to cachedChallenge
AcquireWithoutInstall(v, challenge, n, answer) ==
    IF ~ProbeResolves(answer) THEN Thrown("ProbeFailed", challenge, n)
    ELSE IF ~answer.hasHeader \/ answer.header = << >>
    THEN Thrown("MissingAuthHeader", challenge, n)
    ELSE IF ~IncludesDigest(answer.header)
    THEN Thrown("UnsupportedScheme", challenge, n)
    ELSE IF LacksRealmOrNonce(parseDigestChallenge(DigestPart(v, answer.header)))
    THEN Thrown("InvalidChallenge", challenge, n)
    ELSE [threw |-> FALSE, error |-> "none", challenge |-> challenge, nc |-> 1]

\* an acquisition branch without the check of realm and nonce
AcquireUnvalidated(v, challenge, n, answer) ==
    IF ~ProbeResolves(answer) THEN Thrown("ProbeFailed", challenge, n)
    ELSE IF ~answer.hasHeader \/ answer.header = << >>
    THEN Thrown("MissingAuthHeader", challenge, n)
    ELSE IF ~IncludesDigest(answer.header)
    THEN Thrown("UnsupportedScheme", challenge, n)
    ELSE [threw |-> FALSE, error |-> "none",
          challenge |-> parseDigestChallenge(DigestPart(v, answer.header)),
          nc |-> 1]

\* the acquisition branch after the probe has settled: the error thrown, if
\* any, and cachedChallenge and nc as the branch leaves them
Acquire(v, challenge, n, answer) ==
    IF ~ProbeResolves(answer) THEN Thrown("ProbeFailed", challenge, n)
    ELSE IF ~answer.hasHeader \/ answer.header = << >>
    THEN Thrown("MissingAuthHeader", challenge, n)
    ELSE IF ~IncludesDigest(answer.header)
    THEN Thrown("UnsupportedScheme", challenge, n)
    ELSE LET parsed == parseDigestChallenge(DigestPart(v, answer.header))
         IN IF LacksRealmOrNonce(parsed)
            THEN Thrown("InvalidChallenge", parsed, n)
            ELSE [threw |-> FALSE, error |-> "none", challenge |-> parsed, nc |-> 1]

\* the interceptor from the cnonce on: the error thrown, if any, and authValue
InterceptorTail(v, challenge, n, r, cnonce) ==
    IF challenge = Null
    THEN [threw |-> TRUE, error |-> "NoChallenge", authValue |-> NoHeader]
    ELSE LET uri == DeriveUri(v, r)
             digestResponse ==
                 calculateDigestResponse(v, username, password, challenge, n,
                                         cnonce, MethodOf(r), uri)
         IN IF digestResponse.threw
            THEN [threw |-> TRUE, error |-> "UnsupportedAlgorithm",
                  authValue |-> NoHeader]
            ELSE [threw |-> FALSE, error |-> "none",
                  authValue |-> AuthValue(v, username, challenge, uri,
                                          digestResponse.value,
                                          formatNonceCount(n), cnonce)]

(***************************************************************************)
(* Response interceptor                                                    *)
(***************************************************************************)
\* if (error.response && error.response.status === 401 && cachedChallenge)
Invalidates(err, challenge) ==
    err.hasResponse /\ err.status = 401 /\ challenge # Null

\* a rejection handler that only rejects again
OnRejectedKeepsChallenge(err, challenge, n) == [challenge |-> challenge, nc |-> n]

\* cachedChallenge and nc as the rejection handler leaves them
OnRejected(err, challenge, n) ==
    IF Invalidates(err, challenge)
    THEN [challenge |-> Null, nc |-> 0]
    ELSE [challenge |-> challenge, nc |-> n]

(***************************************************************************)
(* State machine                                                           *)
(***************************************************************************)
\* no function applied on its own
NoCall ==
    [fn |-> "none", n |-> 0, r |-> NoRequest, challenge |-> EmptyChallenge,
     cnonce |-> << >>]

NoResult == [done |-> FALSE, threw |-> FALSE, value |-> << >>]

\* instances returned by separate calls of createDigestAuth
Instances == {"i1", "i2"}

\* the closure state createDigestAuth starts an instance with, no call on it
NewInstance ==
    [challenge |-> Null, nc |-> 0, pc |-> "idle", req |-> NoRequest,
     hdr |-> NoHeader, outcome |-> "none", probes |-> 0, sends |-> 0,
     door |-> FALSE]

\* the shared client after createDigestAuth
ClientInit ==
    /\ variant \in {1, 2}
    /\ cachedChallenge = Null
    /\ nc = 0
    /\ pc = [p \in Callers |-> "idle"]
    /\ req = [p \in Callers |-> NoRequest]
    /\ hdr = [p \in Callers |-> NoHeader]
    /\ outcome = [p \in Callers |-> "none"]
    /\ probes = [p \in Callers |-> 0]
    /\ sends = [p \in Callers |-> 0]
    /\ stale = [p \in Callers |-> FALSE]
    /\ startTag = [p \in Callers |-> "none"]
    /\ since401 = "none"
    /\ epochLast = 0
    /\ overlapped = FALSE

Init ==
    /\ ClientInit
    /\ applied = NoCall
    /\ returned = NoResult
    /\ inst = [i \in Instances |-> NewInstance]

\* the call of p is over: its request config and context are dropped
Ends(p, result) ==
    /\ pc' = [pc EXCEPT ![p] = "idle"]
    /\ outcome' = [outcome EXCEPT ![p] = result]
    /\ req' = [req EXCEPT ![p] = NoRequest]
    /\ hdr' = [hdr EXCEPT ![p] = NoHeader]
    /\ stale' = [stale EXCEPT ![p] = FALSE]
    /\ startTag' = [startTag EXCEPT ![p] = "none"]

\* the interceptor returns requestConfig: axios sends the request of p with
\* the Authorization header
Forwards(p, r, authValue, sentBefore) ==
    /\ pc' = [pc EXCEPT ![p] = "sent"]
    /\ outcome' = [outcome EXCEPT ![p] = "none"]
    /\ req' = [req EXCEPT ![p] = r]
    /\ hdr' = [hdr EXCEPT ![p] = authValue]
    /\ sends' = [sends EXCEPT ![p] = sentBefore + 1]

\* the interceptor awaits axios.request: the probe of p is on the wire
Probes(p, r) ==
    /\ pc' = [pc EXCEPT ![p] = "probing"]
    /\ outcome' = [outcome EXCEPT ![p] = "none"]
    /\ req' = [req EXCEPT ![p] = r]
    /\ hdr' = [hdr EXCEPT ![p] = NoHeader]
    /\ probes' = [probes EXCEPT ![p] = 1]
    /\ sends' = [sends EXCEPT ![p] = 0]

\* the request interceptor from the cnonce on, with cachedChallenge and nc
\* as the branch taken has left them (lines 148-208): it throws, or returns
\* the request config with the header set
InterceptorEnd(p, r, sentBefore) ==
    \E cnonce \in CNonces :
        LET tail == InterceptorTail(variant, cachedChallenge', nc', r, cnonce)
        IN IF tail.threw
           THEN /\ Ends(p, tail.error)
                /\ sends' = [sends EXCEPT ![p] = sentBefore]
                /\ epochLast' = IF cachedChallenge' = cachedChallenge
                                THEN epochLast ELSE 0
           ELSE /\ Forwards(p, r, tail.authValue, sentBefore)
                /\ stale' = [stale EXCEPT ![p] = pc[p] = "probing" /\ stale[p]]
                /\ startTag' = [startTag EXCEPT ![p] =
                                   IF pc[p] = "probing" THEN startTag[p] ELSE since401]
                /\ epochLast' = nc'

\* the request interceptor of the call of p, from its start to its await of
\* the probe or, in the reuse branch, to its end
InterceptorStart(p, r) ==
    IF NeedsChallenge(variant, cachedChallenge, nc)
    THEN /\ Probes(p, r)
         /\ stale' = [stale EXCEPT ![p] = cachedChallenge # Null]
         /\ startTag' = [startTag EXCEPT ![p] = since401]
         /\ UNCHANGED <<cachedChallenge, nc, epochLast>>
    ELSE /\ nc' = Reuse(nc)
         /\ probes' = [probes EXCEPT ![p] = 0]
         /\ UNCHANGED cachedChallenge
         /\ InterceptorEnd(p, r, 0)

\* the request interceptor resumed after its await, the probe having settled
\* with answer, to its end
InterceptorResume(p, answer) ==
    LET acq == Acquire(variant, cachedChallenge, nc, answer)
    IN /\ cachedChallenge' = acq.challenge
       /\ nc' = acq.nc
       /\ UNCHANGED probes
       /\ IF acq.threw
          THEN /\ Ends(p, acq.error)
               /\ epochLast' = IF acq.challenge = cachedChallenge THEN epochLast ELSE 0
               /\ UNCHANGED sends
          ELSE InterceptorEnd(p, req[p], sends[p])

\* caller p calls the client with request config r
Perform(p, r) ==
    /\ pc[p] = "idle"
    /\ InterceptorStart(p, r)
    /\ since401' = "none"
    /\ overlapped' = (overlapped \/ \E q \in Callers \ {p} : pc[q] # "idle")
    /\ UNCHANGED <<variant, applied, returned, inst>>

\* the probe of caller p settles
ProbeSettled(p, answer) ==
    /\ pc[p] = "probing"
    /\ InterceptorResume(p, answer)
    /\ since401' = IF since401 = "fresh" /\ cachedChallenge' # Null
                   THEN IF LacksRealmOrNonce(cachedChallenge')
                        THEN "tainted" ELSE "stale"
                   ELSE since401
    /\ UNCHANGED <<variant, overlapped, applied, returned, inst>>

\* the authenticated request of caller p is answered with a 2xx status:
\* (response) => response
ResponseFulfilled(p) ==
    /\ pc[p] = "sent"
    /\ Ends(p, "ok")
    /\ UNCHANGED <<variant, cachedChallenge, nc, probes, sends, since401,
                   epochLast, overlapped, applied, returned, inst>>

RejectionName(err) ==
    IF ~err.hasResponse THEN "transport"
    ELSE IF err.status = 401 THEN "rejected401" ELSE "rejected"

\* a rejection handler that, on a 401, clears the cache and resubmits the
\* request through the client (return axiosInstance(error.config)) instead
\* of rejecting
ResponseRejectedResubmits(p, err) ==
    /\ pc[p] = "sent"
    /\ LET after == OnRejected(err, cachedChallenge, nc)
       IN /\ cachedChallenge' = after.challenge
          /\ nc' = after.nc
          /\ epochLast' = IF after.challenge = cachedChallenge THEN epochLast ELSE 0
    /\ since401' = IF err.hasResponse /\ err.status = 401 THEN "fresh" ELSE since401
    /\ IF Invalidates(err, cachedChallenge)
       THEN /\ pc' = [pc EXCEPT ![p] = "probing"]
            /\ hdr' = [hdr EXCEPT ![p] = NoHeader]
            /\ probes' = [probes EXCEPT ![p] = @ + 1]
            /\ UNCHANGED <<req, outcome, stale, startTag, sends>>
       ELSE Ends(p, RejectionName(err)) /\ UNCHANGED <<probes, sends>>
    /\ UNCHANGED <<variant, overlapped, applied, returned, inst>>

\* the authenticated request of caller p fails with err: the rejection
\* handler of the response interceptor runs and rejects again
ResponseRejected(p, err) ==
    /\ pc[p] = "sent"
    /\ LET after == OnRejected(err, cachedChallenge, nc)
       IN /\ cachedChallenge' = after.challenge
          /\ nc' = after.nc
          /\ epochLast' = IF after.challenge = cachedChallenge THEN epochLast ELSE 0
    /\ since401' = IF err.hasResponse /\ err.status = 401 THEN "fresh" ELSE since401
    /\ Ends(p, RejectionName(err))
    /\ UNCHANGED <<variant, probes, sends, overlapped, applied, returned, inst>>

Next ==
    \/ \E p \in Callers, r \in Requests : Perform(p, r)
    \/ \E p \in Callers, answer \in ProbeAnswers : ProbeSettled(p, answer)
    \/ \E p \in Callers : ResponseFulfilled(p)
    \/ \E p \in Callers, err \in Rejections : ResponseRejected(p, err)

Spec == Init /\ [][Next]_vars

(***************************************************************************)
(* Reading a header                                                        *)
(***************************************************************************)
Names(h) == [i \in 1..Len(h) |-> h[i].name]

HasDirective(h, name) == \E i \in 1..Len(h) : h[i].name = name

\* the value of the directive called name in header h, which has one
ValueOf(h, name) == h[CHOOSE i \in 1..Len(h) : h[i].name = name].value

InFlight(p) == pc[p] = "sent"

(***************************************************************************)
(* C1: concurrent perform calls sharing one client never produce two       *)
(* Authorization headers with the same (nonce, nc): of any two             *)
(* authenticated requests on the wire at the same time, both carrying nc,  *)
(* the (nonce, nc) pairs differ.                                           *)
(***************************************************************************)
C1_DistinctNonceCounts ==
    \A p, q \in Callers :
        (/\ p # q
         /\ InFlight(p) /\ InFlight(q)
         /\ HasDirective(hdr[p], "nc") /\ HasDirective(hdr[q], "nc"))
        => <<ValueOf(hdr[p], "nonce"), ValueOf(hdr[p], "nc")>>
           # <<ValueOf(hdr[q], "nonce"), ValueOf(hdr[q], "nc")>>

(***************************************************************************)
(* C2: challenge acquisition is single-flight: at most one probe of the    *)
(* client is in flight at any moment.                                      *)
(***************************************************************************)
C2_SingleFlight == Cardinality({p \in Callers : pc[p] = "probing"}) <= 1

(***************************************************************************)
(* C3 as stated: after a 401 answer to an authenticated request the cache  *)
(* is Empty with nc = 0, and the very next perform call issues exactly one *)
(* probe before it builds its Authorization header.                        *)
(***************************************************************************)
C3_NextCallProbes ==
    /\ since401 = "fresh" => (cachedChallenge = Null /\ nc = 0)
    /\ \A p \in Callers : startTag[p] \in {"fresh", "stale"} => probes[p] = 1

(***************************************************************************)
(* C3 as amended: after a 401 answer to an authenticated request the cache *)
(* is Empty with nc = 0; the very next perform call issues exactly one     *)
(* probe before it builds its Authorization header, unless a probe that    *)
(* was already in flight has installed a challenge in between.             *)
(***************************************************************************)
C3_NextCallProbesUnlessInstalled ==
    /\ since401 = "fresh" => (cachedChallenge = Null /\ nc = 0)
    /\ \A p \in Callers :
          startTag[p] = "fresh"
          => (probes[p] = 1 /\ (InFlight(p) => sends[p] = 1 /\ hdr[p] # NoHeader))

\* the first call after a 401 has probed once and sent its request
C3_Witness ==
    \E p \in Callers : startTag[p] = "fresh" /\ InFlight(p) /\ probes[p] = 1

(***************************************************************************)
(* C4: a perform call never resubmits: it sends at most one probe and at   *)
(* most one authenticated request, and a call whose authenticated request  *)
(* was answered with 401 is over, that failure its result.                 *)
(***************************************************************************)
C4_NoResubmission ==
    \A p \in Callers :
        /\ probes[p] <= 1
        /\ sends[p] <= 1
        /\ outcome[p] = "rejected401" => (pc[p] = "idle" /\ sends[p] = 1)

\* a call that probed, sent its request and ended with the 401 it received,
\* the cache invalidated for later calls
C4_Witness ==
    \E p \in Callers :
        /\ outcome[p] = "rejected401" /\ pc[p] = "idle"
        /\ probes[p] = 1 /\ sends[p] = 1
        /\ cachedChallenge = Null

(***************************************************************************)
(* C5: if challenge acquisition fails (the probe does not settle with a    *)
(* 401, the 401 has no WWW-Authenticate header, the header does not pass   *)
(* the test for the Digest scheme, or the parsed challenge lacks realm or  *)
(* nonce), the perform call ends with the error and the request of the     *)
(* caller is never forwarded: no Authorization header is sent for it.      *)
(***************************************************************************)
AcquisitionErrors ==
    {"ProbeFailed", "MissingAuthHeader", "UnsupportedScheme", "InvalidChallenge"}

\* the answer to the probe is one of the failure cases
AcquisitionFails(v, answer) ==
    \/ ~(answer.kind = "response" /\ answer.status = 401)
    \/ ~answer.hasHeader
    \/ answer.header = << >>
    \/ ~IncludesDigest(answer.header)
    \/ LacksRealmOrNonce(parseDigestChallenge(DigestPart(v, answer.header)))

C6_OnlyValidChallengeHeld ==
    /\ cachedChallenge # Null => ~LacksRealmOrNonce(cachedChallenge)
    /\ \A p \in Callers :
          InFlight(p) => (ValueOf(hdr[p], "realm") # << >>
                          /\ ValueOf(hdr[p], "nonce") # << >>)

(***************************************************************************)
(* C7: for non-overlapping perform calls, the nc of the Authorization      *)
(* headers built within one challenge epoch is 1, 2, 3, ... in call order: *)
(* a header built on acquisition has nc = 1, a header built on reuse has   *)
(* the nc of the previous header of the epoch plus one.                    *)
(***************************************************************************)
\* caller p builds its Authorization header in this step
BuildsHeader(p) == pc[p] # "sent" /\ pc'[p] = "sent"

C7_SequentialNonceCounts ==
    [][~overlapped'
       => \A p \in Callers :
             BuildsHeader(p)
             => LET expected == IF pc[p] = "probing" THEN 1 ELSE epochLast + 1
                IN /\ nc' = expected
                   /\ HasDirective(hdr'[p], "nc")
                      => ValueOf(hdr'[p], "nc") = formatNonceCount(expected)]_vars

\* the second call of an epoch, alone on the client, sends nc=00000002
C7_Witness ==
    \E p \in Callers :
        /\ ~overlapped /\ InFlight(p) /\ probes[p] = 0
        /\ nc = 2 /\ epochLast = 2
        /\ HasDirective(hdr[p], "nc")
        /\ ValueOf(hdr[p], "nc") = formatNonceCount(2)

(***************************************************************************)
(* C8: once nc exceeds the ceiling, the next perform call does not         *)
(* increment nc: it issues a probe, installs the newly parsed challenge    *)
(* and authenticates with nc = 1; if the probe fails, the call sends no    *)
(* authenticated request.  nc never exceeds the ceiling plus one.          *)
(***************************************************************************)
OverCeiling == cachedChallenge # Null /\ nc > Ceiling(variant)

C8_Rollover ==
    [][/\ nc' <= Ceiling(variant) + 1
       /\ \A p \in Callers :
             /\ (OverCeiling /\ \E r \in Requests : Perform(p, r))
                => /\ nc' = nc /\ cachedChallenge' = cachedChallenge
                   /\ pc'[p] = "probing" /\ probes'[p] = 1 /\ sends'[p] = 0
             /\ (pc[p] = "probing" /\ stale[p] /\ pc'[p] = "sent")
                => /\ nc' = 1
                   /\ \E answer \in ProbeAnswers :
                         /\ ProbeSettled(p, answer)
                         /\ cachedChallenge' =
                               parseDigestChallenge(DigestPart(variant, answer.header))
                   /\ ValueOf(hdr'[p], "nonce") = cachedChallenge'.nonce
                   /\ HasDirective(hdr'[p], "nc")
                      => ValueOf(hdr'[p], "nc") = formatNonceCount(1)
             /\ (pc[p] = "probing" /\ stale[p] /\ pc'[p] = "idle")
                => (sends'[p] = 0 /\ hdr'[p] = NoHeader)]_vars

\* a call that started over the ceiling has probed and sent nc=00000001
C8_Witness ==
    \E p \in Callers :
        /\ stale[p] /\ InFlight(p) /\ probes[p] = 1 /\ sends[p] = 1
        /\ nc = 1
        /\ HasDirective(hdr[p], "nc")
        /\ ValueOf(hdr[p], "nc") = formatNonceCount(1)

(***************************************************************************)
(* C9: every perform call eventually completes, even if the device never   *)
(* answers.  The probe is sent with timeout: 5000, so it settles; nothing  *)
(* bounds the wait for the answer to the authenticated request.            *)
(***************************************************************************)
\* what the timers of the code guarantee: a probe in flight settles
Fairness ==
    \A p \in Callers : WF_vars(\E answer \in ProbeAnswers : ProbeSettled(p, answer))

LiveSpec == Spec /\ Fairness

C9_EveryCallCompletes ==
    \A p \in Callers : (pc[p] # "idle") ~> (pc[p] = "idle")

(***************************************************************************)
(* C10: the optional directives of every Authorization header mirror the   *)
(* challenge it is built from: qop, nc and cnonce appear iff the challenge *)
(* declared qop, opaque iff it carried opaque, algorithm iff it carried    *)
(* algorithm, each echoed value verbatim, in the order username, realm,    *)
(* nonce, uri, response, qop, nc, cnonce, opaque, algorithm.               *)
(***************************************************************************)
DirectiveOrder ==
    <<"username", "realm", "nonce", "uri", "response", "qop", "nc", "cnonce",
      "opaque", "algorithm">>

RECURSIVE Keep(_, _)
Keep(names, present) ==
    IF names = << >> THEN << >>
    ELSE (IF Head(names) \in present THEN <<Head(names)>> ELSE << >>)
         \o Keep(Tail(names), present)

Mirrors(h, challenge) ==
    LET present ==
            {"username", "realm", "nonce", "uri", "response"}
            \cup (IF "qop" \in challenge.set THEN {"qop", "nc", "cnonce"} ELSE {})
            \cup (challenge.set \cap {"opaque", "algorithm"})
    IN /\ Names(h) = Keep(DirectiveOrder, present)
       /\ \A k \in {"realm", "nonce"} \cup challenge.set :
             HasDirective(h, k) => ValueOf(h, k) = challenge[k]

C10_HeaderMirrorsChallenge ==
    [][\A p \in Callers : BuildsHeader(p) => Mirrors(hdr'[p], cachedChallenge')]_vars

(***************************************************************************)
(* The functions of the module applied on their own                        *)
(***************************************************************************)
\* the rollover ceilings as the source has them
NcCeilingFixedMD5 == 99
NcCeilingChallengeAlg == 9999

SourceCeiling(v) == IF v = 1 THEN NcCeilingFixedMD5 ELSE NcCeilingChallengeAlg

\* every nc the interceptor can format: 1 after an acquisition, then nc++
\* while nc is not over the ceiling
ReachableNc(v) == 1..(SourceCeiling(v) + 1)

\* further WWW-Authenticate values
HeaderSha256 ==
    <<"Digest", SP, "realm", "=", Q, "r", Q, ",", SP, "nonce", "=", Q, "n1", Q, ",",
      SP, "algorithm", "=", "sha256">>

HeaderEmptyQop ==
    <<"Digest", SP, "realm", "=", Q, "r", Q, ",", SP, "nonce", "=", Q, "n1", Q, ",",
      SP, "qop", "=", Q, Q>>

\* challenges as the acquisition branch installs them
Challenges ==
    {parseDigestChallenge(h) :
        h \in {HeaderFull, HeaderPlain, HeaderSess, HeaderSha256, HeaderEmptyQop}}

\* request configs: absolute URL, path under a base URL, path alone
UrlAbsolute == <<"http", ":", "/", "/", "dev", "/", "door", "/", "1">>
UrlAbsoluteQuery == <<"https", ":", "/", "/", "dev", "/", "door", "?", "x">>
UrlHostOnly == <<"http", ":", "/", "/", "dev">>
UrlPath == <<"/", "door", "?", "x">>
UrlSegment == <<"door">>
BaseHost == <<"http", ":", "/", "/", "dev">>
BasePrefix == <<"http", ":", "/", "/", "dev", "/", "api">>
BasePrefixSlash == <<"http", ":", "/", "/", "dev", "/", "api", "/">>

WithBase(url, baseURL) ==
    [method |-> <<"get">>, url |-> url, baseURL |-> baseURL,
     set |-> {"method", "url", "baseURL"}]

WithoutBase(url) ==
    [method |-> <<"put">>, url |-> url, baseURL |-> << >>, set |-> {"method", "url"}]

UriRequests ==
    {WithoutBase(u) : u \in {UrlAbsolute, UrlAbsoluteQuery, UrlHostOnly, UrlPath}}
    \cup {WithBase(u, b) : u \in {UrlAbsolute, UrlPath},
                           b \in {BaseHost, BasePrefix, BasePrefixSlash}}
    \cup {WithBase(UrlSegment, BasePrefixSlash)}

Apply(fn, n, r, challenge, cnonce) ==
    [fn |-> fn, n |-> n, r |-> r, challenge |-> challenge, cnonce |-> cnonce]

\* the applications a behaviour may start from
Calls(v) ==
    {Apply("formatNonceCount", n, NoRequest, EmptyChallenge, << >>) :
        n \in ReachableNc(v)}
    \cup {Apply("deriveUri", 0, r, EmptyChallenge, << >>) : r \in UriRequests}
    \cup {Apply("calculateDigestResponse", n, r, challenge, cnonce) :
            n \in {1, 2}, r \in Requests, challenge \in Challenges,
            cnonce \in CNonces}
    \cup {Apply("interceptor", n, RequestAbsolute, parseDigestChallenge(HeaderFull),
                <<"c1">>) : n \in ReachableNc(v)}

Returns(threw, value) == [done |-> TRUE, threw |-> threw, value |-> value]

PureInit ==
    /\ ClientInit
    /\ inst = [i \in Instances |-> NewInstance]
    /\ applied \in Calls(variant)
    /\ returned = NoResult

ApplyFormatNonceCount ==
    /\ applied.fn = "formatNonceCount" /\ ~returned.done
    /\ returned' = Returns(FALSE, formatNonceCount(applied.n))
    /\ UNCHANGED <<client, applied, inst>>

ApplyDeriveUri ==
    /\ applied.fn = "deriveUri" /\ ~returned.done
    /\ returned' = Returns(FALSE, DeriveUri(variant, applied.r))
    /\ UNCHANGED <<client, applied, inst>>

ApplyCalculateDigestResponse ==
    /\ applied.fn = "calculateDigestResponse" /\ ~returned.done
    /\ LET response ==
              calculateDigestResponse(variant, username, password,
                                      applied.challenge, applied.n, applied.cnonce,
                                      MethodOf(applied.r),
                                      DeriveUri(variant, applied.r))
       IN returned' = Returns(response.threw,
                              IF response.threw THEN << >> ELSE response.value)
    /\ UNCHANGED <<client, applied, inst>>

\* the request interceptor from the cnonce on, the challenge held and nc given
ApplyInterceptorTail ==
    /\ applied.fn = "interceptor" /\ ~returned.done
    /\ LET tail == InterceptorTail(variant, applied.challenge, applied.n,
                                   applied.r, applied.cnonce)
       IN returned' = Returns(tail.threw, tail.authValue)
    /\ UNCHANGED <<client, applied, inst>>

PureNext ==
    \/ ApplyFormatNonceCount
    \/ ApplyDeriveUri
    \/ ApplyCalculateDigestResponse
    \/ ApplyInterceptorTail

PureSpec == PureInit /\ [][PureNext]_vars

Applied(fn) == applied.fn = fn /\ returned.done

(***************************************************************************)
(* C11: calculateDigestResponse hashes HA1, HA2 and the response with the  *)
(* algorithm the challenge names when it names one, and with MD5 only when *)
(* it names none; if the hash provider does not support the algorithm      *)
(* named, the call fails.                                                  *)
(***************************************************************************)
\* the response of RFC 2617 with hash algorithm alg, nc8 the nc as text
DigestOf(alg, challenge, nc8, cnonce, method, uri, withQop) ==
    LET HA1 == hashFunction(alg, Join(<<username, challenge.realm, password>>))
        HA2 == hashFunction(alg, Join(<<method, uri>>))
    IN hashFunction(alg,
                    IF withQop
                    THEN Join(<<HA1, challenge.nonce, nc8, cnonce, challenge.qop, HA2>>)
                    ELSE Join(<<HA1, challenge.nonce, HA2>>))

\* the algorithm the challenge names, MD5 if it names none
NamedAlgorithm(challenge) ==
    IF "algorithm" \in challenge.set THEN challenge.algorithm ELSE <<"MD5">>

C11_HashesWithNamedAlgorithm ==
    Applied("calculateDigestResponse")
    => LET named == NamedAlgorithm(applied.challenge)
       IN IF toLowerCase(named) \in SupportedHashes
          THEN /\ ~returned.threw
               /\ returned.value =
                     DigestOf(named, applied.challenge, formatNonceCount(applied.n),
                              applied.cnonce, MethodOf(applied.r),
                              DeriveUri(variant, applied.r),
                              Truthy(applied.challenge, "qop"))
          ELSE returned.threw

(***************************************************************************)
(* C12: calculateDigestResponse returns hash(HA1:nonce:nc8:cnonce:qop:HA2) *)
(* exactly when the challenge has a (non-empty) qop and hash(HA1:nonce:HA2)*)
(* exactly when it has none, with HA1 = hash(username:realm:password),     *)
(* HA2 = hash(method:uri), nc8 the formatted nc and hash the algorithm the *)
(* function selected; without qop the result does not depend on nc or      *)
(* cnonce.                                                                 *)
(***************************************************************************)
C12_ResponseForm ==
    (Applied("calculateDigestResponse") /\ ~returned.threw)
    => LET challenge == applied.challenge
           method == MethodOf(applied.r)
           uri == DeriveUri(variant, applied.r)
           alg == SelectAlgorithm(variant, challenge)
           six == DigestOf(alg, challenge, formatNonceCount(applied.n),
                           applied.cnonce, method, uri, TRUE)
           two == DigestOf(alg, challenge, formatNonceCount(applied.n),
                           applied.cnonce, method, uri, FALSE)
       IN IF challenge.qop # << >>
          THEN returned.value = six /\ returned.value # two
          ELSE /\ returned.value = two /\ returned.value # six
               /\ \A n \in {1, 2, 255}, cnonce \in CNonces :
                     calculateDigestResponse(variant, username, password, challenge,
                                             n, cnonce, method, uri).value
                     = returned.value

\* the function has returned the short form for a challenge without qop
C12_Witness ==
    /\ Applied("calculateDigestResponse") /\ ~returned.threw
    /\ applied.n = 2
    /\ applied.challenge.qop = << >>
    /\ returned.value = DigestOf(SelectAlgorithm(variant, applied.challenge),
                                 applied.challenge, << >>, << >>,
                                 MethodOf(applied.r), DeriveUri(variant, applied.r),
                                 FALSE)

(***************************************************************************)
(* C13: under every interleaving of perform calls, probes and 401          *)
(* invalidations, the request interceptor never reaches the computation of *)
(* the response with no challenge held: no call ends with the error        *)
(* 'No valid digest challenge available'.                                  *)
(***************************************************************************)
C13_NoChallengeUnreachable ==
    \A p \in Callers : outcome[p] # "NoChallenge"

\* a call whose probe was in flight when a 401 emptied the cache has
\* resumed, passed the guard and sent its request
C13_Witness ==
    \E p \in Callers :
        /\ since401 = "stale"
        /\ InFlight(p) /\ probes[p] = 1 /\ sends[p] = 1
        /\ cachedChallenge # Null

(***************************************************************************)
(* C14: the uri placed in the Authorization header and fed to the hash is  *)
(* the path plus query of the request, without scheme, host or port, for   *)
(* an absolute URL, for a path relative to a base URL (also a base URL     *)
(* with a path prefix) and for a path with no base URL.                    *)
(***************************************************************************)
\* axios isAbsoluteURL: /^([a-z][a-z\d+\-.]*:)?\/\//i
AxiosIsAbsoluteURL(url) ==
    \/ Len(url) >= 4 /\ IsWord(url[1]) /\ url[2] = ":" /\ url[3] = "/" /\ url[4] = "/"
    \/ Len(url) >= 2 /\ url[1] = "/" /\ url[2] = "/"

\* axios combineURLs: the base URL without its trailing slash, a slash, the
\* relative URL without its leading slashes
combineURLs(baseURL, relativeURL) ==
    LET base == IF baseURL[Len(baseURL)] = "/"
                THEN SubSeq(baseURL, 1, Len(baseURL) - 1) ELSE baseURL
        lead == {i \in 1..Len(relativeURL) : relativeURL[i] # "/"}
        relative == IF lead = {} THEN << >> ELSE Drop(relativeURL, Min(lead) - 1)
    IN IF relativeURL = << >> THEN baseURL ELSE base \o <<"/">> \o relative

\* axios buildFullPath: the URL the adapter sends the request config to
buildFullPath(r) ==
    IF "baseURL" \in r.set /\ r.baseURL # << >> /\ ~AxiosIsAbsoluteURL(UrlOrEmpty(r))
    THEN combineURLs(r.baseURL, UrlOrEmpty(r))
    ELSE UrlOrEmpty(r)

\* path and query of the request line axios sends for r
RequestTarget(r) ==
    LET fullPath == buildFullPath(r)
    IN IF IsAbsoluteURL(fullPath) THEN AbsolutePathAndSearch(fullPath) ELSE fullPath

\* t holds no scheme and authority
NoOrigin(t) ==
    \A i \in 1..(Len(t) - 2) : ~(t[i] = ":" /\ t[i + 1] = "/" /\ t[i + 2] = "/")

C14_UriIsRequestPathAndQuery ==
    Applied("deriveUri")
    => /\ returned.value = RequestTarget(applied.r)
       /\ NoOrigin(returned.value)

(***************************************************************************)
(* C15: cachedChallenge and nc change only through a successful            *)
(* acquisition, the reuse increment of the request interceptor, and the    *)
(* invalidation on a 401 answer to an authenticated request; every other   *)
(* event leaves both unchanged.                                            *)
(***************************************************************************)
\* the acquisition of caller p succeeds in this step
AcquisitionSucceeds(p) ==
    /\ pc[p] = "probing" /\ pc'[p] # "probing"
    /\ outcome'[p] \notin AcquisitionErrors
    /\ cachedChallenge' # Null /\ nc' = 1

\* caller p goes through the reuse branch in this step
ReuseIncrements(p) ==
    /\ pc[p] = "idle" /\ probes'[p] = 0
    /\ cachedChallenge # Null /\ cachedChallenge' = cachedChallenge
    /\ nc' = nc + 1

\* the authenticated request of caller p is answered 401 in this step
InvalidatedBy401(p) ==
    /\ pc[p] = "sent" /\ pc'[p] = "idle" /\ outcome'[p] = "rejected401"
    /\ cachedChallenge' = Null /\ nc' = 0

C15_OnlyThreeTransitions ==
    [][(cachedChallenge' # cachedChallenge \/ nc' # nc)
       => \E p \in Callers :
             AcquisitionSucceeds(p) \/ ReuseIncrements(p) \/ InvalidatedBy401(p)]_vars

(***************************************************************************)
(* C16: between interceptor steps the challenge is absent if and only if   *)
(* nc = 0: an Empty cache has nc = 0, a held challenge has nc >= 1.        *)
(***************************************************************************)
C16_AbsentIffZero ==
    /\ (cachedChallenge = Null) <=> (nc = 0)
    /\ cachedChallenge # Null => nc >= 1

(***************************************************************************)
(* C17: a 401 invalidates only the challenge the failing request was       *)
(* authenticated with: if another challenge has been installed by the time *)
(* the 401 arrives, that challenge and its nc are left in place.           *)
(***************************************************************************)
\* the request of p on the wire was built under a challenge that has been
\* replaced since
BuiltUnderEarlierChallenge(p) ==
    /\ InFlight(p)
    /\ cachedChallenge # Null /\ ~LacksRealmOrNonce(cachedChallenge)
    /\ ValueOf(hdr[p], "nonce") # cachedChallenge.nonce

C17_LaterChallengeSurvives401 ==
    [][\A p \in Callers :
          (BuiltUnderEarlierChallenge(p) /\ outcome'[p] = "rejected401"
           /\ pc'[p] = "idle")
          => (cachedChallenge' = cachedChallenge /\ nc' = nc)]_vars

(***************************************************************************)
(* Separate instances.  cachedChallenge and nc are variables of the        *)
(* closure of createDigestAuth, so every instance has its own; inst[i] is  *)
(* the instance in slot i with the call in progress on it (one at a time). *)
(* controlDoor calls createDigestAuth itself and keeps the instance in a   *)
(* local variable.                                                         *)
(***************************************************************************)
\* the request interceptor from the cnonce on, on instance state s
FinishOn(s, challenge, n, r, sentBefore, cnonce) ==
    LET tail == InterceptorTail(variant, challenge, n, r, cnonce)
    IN IF tail.threw
       THEN [s EXCEPT !.challenge = challenge, !.nc = n, !.pc = "idle",
                      !.outcome = tail.error, !.req = NoRequest, !.hdr = NoHeader,
                      !.sends = sentBefore]
       ELSE [s EXCEPT !.challenge = challenge, !.nc = n, !.pc = "sent",
                      !.outcome = "none", !.req = r, !.hdr = tail.authValue,
                      !.sends = sentBefore + 1]

\* the request interceptor up to its await or through the reuse branch
StartOn(s, r, cnonce) ==
    IF NeedsChallenge(variant, s.challenge, s.nc)
    THEN [s EXCEPT !.pc = "probing", !.outcome = "none", !.req = r,
                   !.hdr = NoHeader, !.probes = 1, !.sends = 0]
    ELSE FinishOn([s EXCEPT !.probes = 0], s.challenge, Reuse(s.nc), r, 0, cnonce)

\* the request interceptor resumed after its await
ResumeOn(s, answer, cnonce) ==
    LET acq == Acquire(variant, s.challenge, s.nc, answer)
    IN IF acq.threw
       THEN [s EXCEPT !.challenge = acq.challenge, !.nc = acq.nc, !.pc = "idle",
                      !.outcome = acq.error, !.req = NoRequest, !.hdr = NoHeader]
       ELSE FinishOn(s, acq.challenge, acq.nc, s.req, s.sends, cnonce)

\* the rejection handler of the response interceptor
RejectOn(s, err) ==
    LET after == OnRejected(err, s.challenge, s.nc)
    IN [s EXCEPT !.challenge = after.challenge, !.nc = after.nc, !.pc = "idle",
                 !.outcome = RejectionName(err), !.req = NoRequest,
                 !.hdr = NoHeader]

\* a client kept from one controlDoor call to the next
KeptInstance(previous) == [previous EXCEPT !.door = TRUE]

\* const axiosWithDigestAuth = await createDigestAuth({...}) in controlDoor
DoorInstance(previous) == [NewInstance EXCEPT !.door = TRUE]

\* createDigestAuth is called and its result kept in slot i
CreateDigestAuth(i) ==
    /\ inst[i].pc = "idle"
    /\ inst[i] # NewInstance
    /\ inst' = [inst EXCEPT ![i] = NewInstance]
    /\ UNCHANGED <<client, applied, returned>>

\* a call on the instance of slot i
InstancePerform(i, r) ==
    /\ inst[i].pc = "idle" /\ ~inst[i].door
    /\ \E cnonce \in CNonces : inst' = [inst EXCEPT ![i] = StartOn(inst[i], r, cnonce)]
    /\ UNCHANGED <<client, applied, returned>>

\* controlDoor: a new instance, and the PUT of the door command on it
ControlDoor(i) ==
    /\ inst[i].pc = "idle"
    /\ \E cnonce \in CNonces :
          inst' = [inst EXCEPT ![i] =
                      StartOn(DoorInstance(inst[i]), RequestAbsolute, cnonce)]
    /\ UNCHANGED <<client, applied, returned>>

InstanceProbeSettled(i, answer) ==
    /\ inst[i].pc = "probing"
    /\ \E cnonce \in CNonces :
          inst' = [inst EXCEPT ![i] = ResumeOn(inst[i], answer, cnonce)]
    /\ UNCHANGED <<client, applied, returned>>

InstanceFulfilled(i) ==
    /\ inst[i].pc = "sent"
    /\ inst' = [inst EXCEPT ![i] = [@ EXCEPT !.pc = "idle", !.outcome = "ok",
                                             !.req = NoRequest, !.hdr = NoHeader]]
    /\ UNCHANGED <<client, applied, returned>>

InstanceRejected(i, err) ==
    /\ inst[i].pc = "sent"
    /\ inst' = [inst EXCEPT ![i] = RejectOn(inst[i], err)]
    /\ UNCHANGED <<client, applied, returned>>

InstanceNext ==
    \/ \E i \in Instances : CreateDigestAuth(i)
    \/ \E i \in Instances : InstancePerform(i, RequestAbsolute)
    \/ \E i \in Instances : ControlDoor(i)
    \/ \E i \in Instances, answer \in ProbeAnswers : InstanceProbeSettled(i, answer)
    \/ \E i \in Instances : InstanceFulfilled(i)
    \/ \E i \in Instances, err \in Rejections : InstanceRejected(i, err)

InstanceSpec == Init /\ [][InstanceNext]_vars

\* a step on one instance leaves challenge and nc of every other as they are
ScopedToInstance ==
    \A i, j \in Instances :
        (i # j /\ inst'[i] # inst[i])
        => (inst'[j].challenge = inst[j].challenge /\ inst'[j].nc = inst[j].nc)

\* how a call ends once its authenticated request has been sent
Answered == {"ok", "rejected", "rejected401", "transport"}

(***************************************************************************)
(* C18 as stated: challenge and nc are scoped to one instance: a step on   *)
(* one instance never changes the challenge or nc of another; and every    *)
(* controlDoor call sends exactly one probe followed by one authenticated  *)
(* request with nc = 1.                                                    *)
(***************************************************************************)
C18_ScopedOneProbeOneRequest ==
    [][/\ ScopedToInstance
       /\ \A i \in Instances :
             inst'[i].door
             => /\ inst'[i].probes = 1
                /\ inst'[i].pc = "sent" => (inst'[i].sends = 1 /\ inst'[i].nc = 1)
                /\ inst'[i].pc = "idle" => inst'[i].sends = 1]_vars

(***************************************************************************)
(* C18 as amended: challenge and nc are scoped to one instance; every      *)
(* controlDoor call sends exactly one probe and, if the acquisition        *)
(* succeeds and the response can be computed, one authenticated request    *)
(* after it, built with nc = 1; otherwise it sends the probe only.         *)
(***************************************************************************)
C18_ScopedOneProbeThenRequest ==
    [][/\ ScopedToInstance
       /\ \A i \in Instances :
             inst'[i].door
             => /\ inst'[i].probes = 1
                /\ (inst'[i].pc = "sent" /\ inst[i].pc # "sent")
                   => inst[i].pc = "probing"
                /\ inst'[i].pc = "sent"
                   => /\ inst'[i].sends = 1 /\ inst'[i].nc = 1
                      /\ HasDirective(inst'[i].hdr, "nc")
                         => ValueOf(inst'[i].hdr, "nc") = formatNonceCount(1)
                /\ inst'[i].pc = "idle"
                   => IF inst'[i].outcome \in Answered
                      THEN inst'[i].sends = 1
                      ELSE inst'[i].sends = 0]_vars

\* a controlDoor call has probed and sent its request with nc=00000001 while
\* another instance holds its own challenge at a later nc
C18_Witness ==
    \E i, j \in Instances :
        /\ i # j
        /\ inst[i].door /\ inst[i].pc = "sent"
        /\ inst[i].probes = 1 /\ inst[i].sends = 1 /\ inst[i].nc = 1
        /\ HasDirective(inst[i].hdr, "nc")
        /\ ~inst[j].door /\ inst[j].challenge # Null /\ inst[j].nc >= 2

(***************************************************************************)
(* C19: for every nc the state machine can reach (1 up to the rollover     *)
(* ceiling plus one) formatNonceCount(nc) is 8 characters long, made of    *)
(* lowercase hexadecimal digits only, and denotes nc (1 gives 00000001,    *)
(* 255 gives 000000ff); the nc of the Authorization header is the string   *)
(* that entered the response hash.                                         *)
(***************************************************************************)
LowerHexDigits ==
    {"0", "1", "2", "3", "4", "5", "6", "7", "8", "9", "a", "b", "c", "d", "e", "f"}

DigitValue(d) ==
    CASE d = "0" -> 0 [] d = "1" -> 1 [] d = "2" -> 2 [] d = "3" -> 3
      [] d = "4" -> 4 [] d = "5" -> 5 [] d = "6" -> 6 [] d = "7" -> 7
      [] d = "8" -> 8 [] d = "9" -> 9 [] d = "a" -> 10 [] d = "b" -> 11
      [] d = "c" -> 12 [] d = "d" -> 13 [] d = "e" -> 14 [] d = "f" -> 15

\* the number a string of hexadecimal digits denotes
RECURSIVE HexValue(_)
HexValue(t) ==
    IF t = << >> THEN 0
    ELSE 16 * HexValue(SubSeq(t, 1, Len(t) - 1)) + DigitValue(t[Len(t)])

EightHexDigitsOf(t, n) ==
    /\ Len(t) = 8
    /\ \A k \in 1..Len(t) : t[k] \in LowerHexDigits
    /\ HexValue(t) = n

C19_NonceCountFormat ==
    /\ Applied("formatNonceCount")
       => /\ EightHexDigitsOf(returned.value, applied.n)
          /\ applied.n = 1
             => returned.value = <<"0", "0", "0", "0", "0", "0", "0", "1">>
          /\ applied.n = 255
             => returned.value = <<"0", "0", "0", "0", "0", "0", "f", "f">>
    /\ (Applied("interceptor") /\ ~returned.threw)
       => /\ HasDirective(returned.value, "nc")
          /\ EightHexDigitsOf(ValueOf(returned.value, "nc"), applied.n)
          /\ ValueOf(returned.value, "response")
             = DigestOf(SelectAlgorithm(variant, applied.challenge),
                        applied.challenge, ValueOf(returned.value, "nc"),
                        applied.cnonce, MethodOf(applied.r),
                        ValueOf(returned.value, "uri"), TRUE)

\* the interceptor has built the header for the last nc before the rollover
C19_Witness ==
    /\ Applied("interceptor") /\ ~returned.threw
    /\ applied.n = SourceCeiling(variant) + 1
    /\ HasDirective(returned.value, "nc")
    /\ HexValue(ValueOf(returned.value, "nc")) = SourceCeiling(variant) + 1

====
